---------------------------- MODULE Spec2Model ----------------------------
(***************************************************************************)
(* Model of the demonstration package `myproject` and of its checker       *)
(* script tests/package_checks.py.                                         *)
(*                                                                         *)
(* One Python process is modelled.  It runs tests/package_checks.py,       *)
(* either as the main program (`python tests/package_checks.py`) or as a   *)
(* module imported by hosting code.  The hosting code may also import      *)
(* myproject / myproject.module, call my_function and call main().  The    *)
(* environment's metadata registry (what importlib.metadata reads) changes *)
(* freely while the process runs.                                          *)
(***************************************************************************)
EXTENDS Naturals, Sequences, FiniteSets

VARIABLES
    registry,        \* metadata registry: distribution name -> entry
    sys_modules,     \* modules of the package executed in this process
    __version__,     \* myproject.__version__ (Unresolved before the body ran)
    at_load,         \* history: registry[__name__] when the body queried it
    fallback_taken,  \* history: line 24 of __init__.py was executed
    lookups,         \* history: number of calls of importlib.metadata.version
    as_main,         \* package_checks.py is run as __main__ (else imported)
    script_pc,       \* position in package_checks.py
    logging_on,      \* logging.basicConfig(level=INFO) was called
    stderr,          \* what the process wrote to standard error
    exit_code,       \* process exit status, Running while it runs
    last_check,      \* outcome of the last main() call made by hosting code
    name_arg,        \* argument of the last my_function call
    result,          \* value returned by the last my_function call
    watched,         \* history: a name whose calls are compared
    watched_result   \* history: what the first call with `watched` returned

vars == <<registry, sys_modules, __version__, at_load, fallback_taken, lookups,
          as_main, script_pc, logging_on, stderr, exit_code, last_check,
          name_arg, result, watched, watched_result>>

(***************************************************************************)
(* Bounds                                                                  *)
(***************************************************************************)
MaxNameLen == 2

(***************************************************************************)
(* The metadata registry                                                   *)
(***************************************************************************)
\* __name__ inside myproject/__init__.py
__name__ == "myproject"

DistNames == {"myproject", "other"}

\* Version strings a distribution's metadata may record.  The registry does
\* not validate them: "0.0.0" is a valid version, "1.02.3" is not normalised.
Versions == {"0.0.0", "1.2.3", "1.02.3", ""}

Absent == [kind |-> "absent"]
Broken == [kind |-> "broken"]
Dist(v) == [kind |-> "dist", version |-> v]
Entries == {Absent, Broken} \cup {Dist(v) : v \in Versions}

\* importlib.metadata.version(distribution_name): the recorded version, a
\* PackageNotFoundError when no distribution has that name, some other
\* exception when the distribution is there and its metadata is unreadable.
version(reg, distribution_name) ==
    LET e == reg[distribution_name] IN
    CASE e.kind = "dist"   -> [raised |-> "none", value |-> e.version]
      [] e.kind = "absent" -> [raised |-> "PackageNotFoundError", value |-> ""]
      [] OTHER             -> [raised |-> "OtherError", value |-> ""]

(***************************************************************************)
(* myproject/__init__.py                                                   *)
(***************************************************************************)
\* Variant: a sentinel that is not the one the checker tests for.
FallbackTypo == "0.0"

Fallback == "0.0.0"
Unresolved == "<unresolved>"

\* Variants: no except clause matches; a bare except.
CaughtNothing(exc) == FALSE
CaughtAnything(exc) == TRUE

\* The exceptions the except clause of line 22 catches.
Caught(exc) == exc = "PackageNotFoundError"

\* Variant: the lookup names another distribution.
LookupOther == "other"

\* The distribution the body asks for (line 21).
LookupName == __name__

\* Variant: the fallback assignment is outside the except clause and always
\* runs.
PackageBodyOverwrite(reg) ==
    LET r == version(reg, LookupName) IN
    IF r.raised = "none" \/ Caught(r.raised)
    THEN [__version__ |-> Fallback, fallback |-> TRUE, raised |-> "none"]
    ELSE [__version__ |-> Unresolved, fallback |-> FALSE, raised |-> r.raised]

\* The try statement of lines 20-24 as a function of the registry: the value
\* bound to __version__, whether line 24 ran, and the exception that leaves
\* the module body ("none" when none does).
PackageBody(reg) ==
    LET r == version(reg, LookupName) IN
    IF r.raised = "none"
    THEN [__version__ |-> r.value, fallback |-> FALSE, raised |-> "none"]
    ELSE IF Caught(r.raised)
    THEN [__version__ |-> Fallback, fallback |-> TRUE, raised |-> "none"]
    ELSE [__version__ |-> Unresolved, fallback |-> FALSE, raised |-> r.raised]

(***************************************************************************)
(* myproject/module.py                                                     *)
(***************************************************************************)
Alphabet == {"a", " "}

RECURSIVE SeqsOfLen(_)
SeqsOfLen(n) ==
    IF n = 0 THEN {<<>>}
    ELSE {Append(s, c) : s \in SeqsOfLen(n - 1), c \in Alphabet}

\* Strings are sequences of characters.
Names == UNION {SeqsOfLen(n) : n \in 0..MaxNameLen}

Hello == <<"H", "e", "l", "l", "o", " ">>
Bang == <<"!">>

\* Variant: the name is stripped of its spaces before it is formatted.
my_function_strip(name) ==
    Hello \o SelectSeq(name, LAMBDA c : c # " ") \o Bang

\* Variant: the greeting is appended to a buffer shared between calls.
my_function_shared(name) == result \o (Hello \o name \o Bang)

\* f'Hello {name}!': the literal parts and the formatted field, joined.
my_function(name) == Hello \o name \o Bang

(***************************************************************************)
(* The import system, as the statements of this repository use it          *)
(***************************************************************************)
Package == "myproject"
Module == "myproject.module"

\* Variant: every import statement executes the body again.
MustExecAlways(m, mods) == TRUE

\* An import statement executes a module's body only when the module is not
\* in sys.modules yet.
MustExec(m, mods) == m \notin mods

InfoLine == "INFO:__main__:Checking __version__..."
Running == <<>>
Alive == exit_code = Running

\* `import myproject` (m = Package) or `from myproject.module import
\* my_function` (m = Module): the package body runs first when it has to, an
\* exception leaving it is uncaught and ends the process with status 1.
DoImport(m) ==
    IF MustExec(Package, sys_modules)
    THEN LET b == PackageBody(registry) IN
         /\ lookups' = lookups + 1
         /\ at_load' = registry[__name__]
         /\ fallback_taken' = b.fallback
         /\ __version__' = b.__version__
         /\ IF b.raised = "none"
            THEN /\ sys_modules' = sys_modules \cup {Package, m}
                 /\ UNCHANGED <<stderr, exit_code>>
            ELSE /\ stderr' = Append(stderr, b.raised)
                 /\ exit_code' = <<1>>
                 /\ UNCHANGED sys_modules
    ELSE /\ sys_modules' = sys_modules \cup {m}
         /\ UNCHANGED <<lookups, at_load, fallback_taken, __version__,
                        stderr, exit_code>>

(***************************************************************************)
(* tests/package_checks.py                                                 *)
(***************************************************************************)
Placeholder == "0.0.0"

\* Variants: the assertion is compiled away; the comparison is inverted.
AssertSkipped(v) == TRUE
AssertInverted(v) == v = Placeholder

\* The assertion of line 34.
AssertHolds(v) == v # Placeholder

\* check_version(): what it logs and the exception it raises, if any.
check_version ==
    [log    |-> IF logging_on THEN <<InfoLine>> ELSE <<>>,
     raised |-> IF AssertHolds(__version__) THEN "none" ELSE "AssertionError"]

\* main() runs every check.
main == check_version

\* Line 19: import myproject.
ScriptImport ==
    /\ Alive
    /\ script_pc = "line19"
    /\ DoImport(Package)
    /\ script_pc' = IF exit_code' = Running THEN "line42" ELSE script_pc
    /\ UNCHANGED <<registry, as_main, logging_on, last_check, name_arg, result,
                   watched, watched_result>>

\* Line 42: if __name__ == "__main__".
ScriptGuard ==
    /\ Alive
    /\ script_pc = "line42"
    /\ script_pc' = IF as_main THEN "line43" ELSE "imported"
    /\ UNCHANGED <<registry, sys_modules, __version__, at_load, fallback_taken,
                   lookups, as_main, logging_on, stderr, exit_code, last_check,
                   name_arg, result, watched, watched_result>>

\* Line 43: logging.basicConfig(level=logging.INFO).
ScriptBasicConfig ==
    /\ Alive
    /\ script_pc = "line43"
    /\ logging_on' = TRUE
    /\ script_pc' = "line44"
    /\ UNCHANGED <<registry, sys_modules, __version__, at_load, fallback_taken,
                   lookups, as_main, stderr, exit_code, last_check,
                   name_arg, result, watched, watched_result>>

\* Line 44: main(), then the end of the script.  An AssertionError is
\* uncaught: traceback on stderr, exit status 1.  Otherwise status 0.
ScriptMain ==
    /\ Alive
    /\ script_pc = "line44"
    /\ LET r == main IN
       IF r.raised = "none"
       THEN /\ stderr' = stderr \o r.log
            /\ exit_code' = <<0>>
       ELSE /\ stderr' = (stderr \o r.log) \o <<r.raised>>
            /\ exit_code' = <<1>>
    /\ script_pc' = "done"
    /\ UNCHANGED <<registry, sys_modules, __version__, at_load, fallback_taken,
                   lookups, as_main, logging_on, last_check,
                   name_arg, result, watched, watched_result>>

(***************************************************************************)
(* Hosting code that imported package_checks as a module                   *)
(***************************************************************************)
\* The host calls main() and handles what it raises.
HostCallMain ==
    /\ Alive
    /\ script_pc = "imported"
    /\ LET r == main IN
       /\ stderr' = stderr \o r.log
       /\ last_check' = IF r.raised = "none" THEN "passed" ELSE r.raised
    /\ UNCHANGED <<registry, sys_modules, __version__, at_load, fallback_taken,
                   lookups, as_main, script_pc, logging_on, exit_code,
                   name_arg, result, watched, watched_result>>

\* The host imports the package or its module.
HostImport(m) ==
    /\ Alive
    /\ ~as_main
    /\ DoImport(m)
    /\ UNCHANGED <<registry, as_main, script_pc, logging_on, last_check,
                   name_arg, result, watched, watched_result>>

\* The host calls my_function(name).
Greet(name) ==
    /\ Alive
    /\ Module \in sys_modules
    /\ name_arg' = name
    /\ result' = my_function(name)
    /\ watched_result' = IF name = watched /\ watched_result = <<>>
                         THEN result' ELSE watched_result
    /\ UNCHANGED <<registry, sys_modules, __version__, at_load, fallback_taken,
                   lookups, as_main, script_pc, logging_on, stderr, exit_code,
                   last_check, watched>>

(***************************************************************************)
(* The environment: installers change the registry while the process runs  *)
(***************************************************************************)
EnvVars == <<sys_modules, __version__, at_load, fallback_taken, lookups, as_main,
             script_pc, logging_on, stderr, exit_code, last_check, name_arg,
             result, watched, watched_result>>

\* Install distribution d at version v (also an upgrade or a downgrade).
Install(d, v) ==
    /\ Alive
    /\ registry' = [registry EXCEPT ![d] = Dist(v)]
    /\ UNCHANGED EnvVars

Uninstall(d) ==
    /\ Alive
    /\ registry' = [registry EXCEPT ![d] = Absent]
    /\ UNCHANGED EnvVars

\* The distribution's metadata becomes unreadable.
Corrupt(d) ==
    /\ Alive
    /\ registry' = [registry EXCEPT ![d] = Broken]
    /\ UNCHANGED EnvVars

(***************************************************************************)
(* Specification                                                           *)
(***************************************************************************)
Init ==
    /\ registry \in [DistNames -> Entries]
    /\ sys_modules = {}
    /\ __version__ = Unresolved
    /\ at_load = Absent
    /\ fallback_taken = FALSE
    /\ lookups = 0
    /\ as_main \in BOOLEAN
    /\ script_pc = "line19"
    /\ logging_on = FALSE
    /\ stderr = <<>>
    /\ exit_code = Running
    /\ last_check = "none"
    /\ name_arg = <<>>
    /\ result = <<>>
    /\ watched \in IF as_main THEN {<<>>} ELSE Names
    /\ watched_result = <<>>

Next ==
    \/ ScriptImport
    \/ ScriptGuard
    \/ ScriptBasicConfig
    \/ ScriptMain
    \/ HostCallMain
    \/ \E m \in {Package, Module} : HostImport(m)
    \/ \E name \in Names : Greet(name)
    \/ \E d \in DistNames, v \in Versions : Install(d, v)
    \/ \E d \in DistNames : Uninstall(d)
    \/ \E d \in DistNames : Corrupt(d)

Spec == Init /\ [][Next]_vars

(***************************************************************************)
(* Properties                                                              *)
(***************************************************************************)
InStderr(x) == \E i \in 1..Len(stderr) : stderr[i] = x
Loaded == Package \in sys_modules
Queried == lookups > 0
Exited == exit_code # Running
Called == result # <<>>

\* C1: for every name, the empty one included, my_function returns exactly
\* "Hello " followed by the name, unchanged, followed by "!".
C1_GreetingIsConcatenation ==
    Called =>
        /\ Len(result) = 6 + Len(name_arg) + 1
        /\ SubSeq(result, 1, 6) = <<"H", "e", "l", "l", "o", " ">>
        /\ SubSeq(result, 7, 6 + Len(name_arg)) = name_arg
        /\ result[Len(result)] = "!"

\* A call with a name made of spaces only returned.
C1_Witness ==
    /\ name_arg = <<" ", " ">>
    /\ result = <<"H", "e", "l", "l", "o", " ", " ", " ", "!">>

\* C2: when no distribution is registered under the package's name at load,
\* the load completes without an error and __version__ is "0.0.0".
C2_NotInstalledGivesFallback ==
    (Queried /\ at_load.kind = "absent") =>
        /\ Loaded
        /\ __version__ = "0.0.0"
        /\ ~InStderr("PackageNotFoundError")

C2_Witness ==
    /\ at_load.kind = "absent"
    /\ Loaded
    /\ __version__ = "0.0.0"

\* C3: when the lookup of the package's own distribution succeeds,
\* __version__ is the recorded string exactly as stored.
C3_VersionAsStored ==
    (Queried /\ at_load.kind = "dist") =>
        /\ Loaded
        /\ __version__ = at_load.version

\* A version that a normalising reader would rewrite was resolved.
C3_Witness ==
    /\ Loaded
    /\ at_load = Dist("1.02.3")
    /\ __version__ = "1.02.3"

\* C4 as stated: the script ends with status 1 and the failed assertion's
\* diagnostic when the resolved version is "0.0.0", with status 0 when the
\* resolved version is anything else, and in no other way.
C4_TwoOutcomesOnly ==
    (as_main /\ Exited) =>
        \/ /\ __version__ = "0.0.0"
           /\ exit_code = <<1>>
           /\ InStderr("AssertionError")
        \/ /\ __version__ \notin {"0.0.0", Unresolved}
           /\ exit_code = <<0>>

\* C4 amended: those two outcomes, and a third one: the lookup raised an
\* error other than PackageNotFoundError during `import myproject`, no
\* version was resolved, no check ran, and the script ended with status 1
\* and that error's traceback.
C4_ThreeOutcomes ==
    (as_main /\ Exited) =>
        \/ /\ __version__ = "0.0.0"
           /\ exit_code = <<1>>
           /\ stderr = <<InfoLine, "AssertionError">>
        \/ /\ __version__ \notin {"0.0.0", Unresolved}
           /\ exit_code = <<0>>
           /\ stderr = <<InfoLine>>
        \/ /\ __version__ = Unresolved
           /\ exit_code = <<1>>
           /\ stderr = <<"OtherError">>
           /\ script_pc = "line19"

\* The script ended on the failed assertion.
C4_Witness ==
    /\ as_main
    /\ exit_code = <<1>>
    /\ InStderr("AssertionError")

\* C5: the registry is queried at most once in a process, and once the
\* package is loaded every step (greeter calls, checker calls, imports,
\* registry changes) leaves __version__ as resolved and queries nothing.
C5_ResolvedOnce ==
    [][/\ lookups' <= 1
       /\ Loaded => (__version__' = __version__ /\ lookups' = lookups)]_vars

\* After the load the registry entry changed, the greeter and the checker
\* were called, and __version__ is still the version recorded at load.
C5_Witness ==
    /\ Loaded
    /\ at_load = Dist("1.2.3")
    /\ registry[__name__] = Absent
    /\ Called
    /\ last_check # "none"
    /\ __version__ = "1.2.3"

\* C6 as stated: a package loaded from an installed distribution has a
\* non-empty __version__ different from "0.0.0".
C6_InstalledVersionIsReal ==
    (Loaded /\ at_load.kind = "dist") =>
        /\ __version__ # ""
        /\ __version__ # "0.0.0"

\* C6 amended: a package loaded from an installed distribution whose
\* recorded version is a non-empty string other than "0.0.0" has a non-empty
\* __version__ different from "0.0.0", resolved without the fallback.
C6_RealRecordedVersionIsReal ==
    (Queried /\ at_load.kind = "dist" /\ at_load.version \notin {"", "0.0.0"}) =>
        /\ Loaded
        /\ __version__ \notin {"", "0.0.0", Unresolved}
        /\ ~fallback_taken

C6_Witness ==
    /\ Loaded
    /\ at_load = Dist("1.2.3")
    /\ __version__ = "1.2.3"
    /\ ~fallback_taken

\* C7 as stated: whenever the resolution took the success path the script
\* ends with status 0, and a script whose check fails took the fallback path.
C7_SuccessPathExitsZero ==
    (as_main /\ Exited) =>
        /\ (at_load.kind = "dist" => exit_code = <<0>>)
        /\ (InStderr("AssertionError") => fallback_taken)

\* C7 amended: whenever the resolution took the success path with a recorded
\* version other than "0.0.0" the script ends with status 0, and a script
\* whose version check fails took the fallback path or resolved a recorded
\* "0.0.0".
C7_RealVersionExitsZero ==
    (as_main /\ Exited) =>
        /\ (at_load.kind = "dist" /\ at_load.version # "0.0.0")
               => exit_code = <<0>>
        /\ InStderr("AssertionError")
               => (fallback_taken \/ at_load = Dist("0.0.0"))

C7_Witness ==
    /\ as_main
    /\ exit_code = <<0>>
    /\ at_load.kind = "dist"
    /\ ~fallback_taken

\* C8 as stated: whatever the kind of the lookup's failure, it is caught,
\* __version__ is "0.0.0" and the import does not fail.
C8_AnyFailureGivesFallback ==
    (Queried /\ at_load.kind # "dist") =>
        /\ Loaded
        /\ __version__ = "0.0.0"

\* C8 amended: a PackageNotFoundError is caught and __version__ is "0.0.0";
\* a lookup failure of any other kind leaves the package body, the import
\* fails and the process ends with status 1, __version__ never bound.
C8_OnlyNotFoundGivesFallback ==
    Queried =>
        /\ at_load.kind = "absent" =>
               (Loaded /\ fallback_taken /\ __version__ = "0.0.0")
        /\ at_load.kind = "broken" =>
               /\ ~Loaded
               /\ ~fallback_taken
               /\ __version__ = Unresolved
               /\ exit_code = <<1>>
               /\ stderr = <<"OtherError">>

\* The fallback ran and the process went on.
C8_Witness ==
    /\ fallback_taken
    /\ Loaded
    /\ Alive
    /\ script_pc # "line19"

\* C9: a my_function call changes nothing but the caller's record of the
\* call, and it returns what the first call with the same name returned.
C9_GreeterIsPure ==
    [][<<name_arg, result, watched_result>>' # <<name_arg, result, watched_result>>
         => /\ UNCHANGED <<registry, sys_modules, __version__, at_load,
                           fallback_taken, lookups, as_main, script_pc,
                           logging_on, stderr, exit_code, last_check, watched>>
            /\ (name_arg' = watched => result' = watched_result')]_vars

\* The watched name was called, another name was called since, and the
\* registry entry is no longer what it was at load.
C9_Witness ==
    /\ watched = <<"a">>
    /\ watched_result = <<"H", "e", "l", "l", "o", " ", "a", "!">>
    /\ name_arg = <<" ">>
    /\ Called
    /\ registry[__name__] # at_load

\* C10: whenever main runs, the package is loaded and __version__ is
\* resolved; and a script that ends with status 0 did not run the fallback
\* assignment.
C10_ResolvedBeforeCheck ==
    [][/\ (script_pc' = "done" \/ last_check' # last_check)
            => (Loaded /\ lookups = 1 /\ __version__ # Unresolved)
       /\ (as_main /\ exit_code' = <<0>>) => ~fallback_taken']_vars

C10_Witness ==
    /\ as_main
    /\ script_pc = "done"
    /\ exit_code = <<0>>
    /\ lookups = 1

====
